---------------------------- MODULE Spec2Model ----------------------------
(***************************************************************************)
(* A model of normalize_tags.py: a batch tool that scans Markdown files,   *)
(* reads the YAML front matter of each, rewrites spelling variants of the  *)
(* tag "online-privacy" to the canonical spelling and, in apply mode,      *)
(* writes the file back after saving a backup.                             *)
(*                                                                         *)
(* Text is modelled as a sequence of tokens.  A token is one character     *)
(* ("-", ":", a space, a newline ...) or one run of letters ("online",     *)
(* "tags"); two adjacent letter runs stand for their concatenation.  File  *)
(* content on disk is a sequence of the same tokens plus the raw bytes     *)
(* that text decoding changes (a carriage return, an invalid byte).        *)
(***************************************************************************)
EXTENDS Integers, Sequences, FiniteSets, TLC

\* ------------------------------------------------------------------ tokens
D    == "-"
SP   == " "
TAB  == "<TAB>"
LF   == "<LF>"
CR   == "<CR>"
BAD  == "<0xFF>"       \* a byte that is not valid UTF-8
DQ   == "<DQ>"         \* a double quote
SQ   == "<SQ>"         \* a single quote
ESC_T == "\\t"         \* the two characters backslash, t
ESC_N == "\\n"         \* the two characters backslash, n
ESC_D == "\\x2d"       \* the four characters backslash, x, 2, d

\* What str.strip()/str.lstrip() remove and what \s matches, within the alphabet.
WS == {SP, TAB, LF, CR}

\* ----------------------------------------------------------- text helpers
Last(s) == s[Len(s)]
Front(s) == SubSeq(s, 1, Len(s) - 1)
MinOf(S) == CHOOSE i \in S : \A j \in S : i <= j
MaxOf(S) == CHOOSE i \in S : \A j \in S : i >= j

\* str.startswith
StartsWith(s, pre) == Len(s) >= Len(pre) /\ SubSeq(s, 1, Len(pre)) = pre

\* str.find(sub, from): the first index >= from at which sub occurs, 0 when none.
FindFrom(s, sub, from) ==
    LET I == {i \in from..(Len(s) - Len(sub) + 1) : SubSeq(s, i, i + Len(sub) - 1) = sub}
    IN IF I = {} THEN 0 ELSE MinOf(I)

\* str.lstrip(), str.strip()
lstrip(s) ==
    LET I == {i \in 1..Len(s) : s[i] \notin WS}
    IN IF I = {} THEN <<>> ELSE SubSeq(s, MinOf(I), Len(s))

strip(s) ==
    LET I == {i \in 1..Len(s) : s[i] \notin WS}
    IN IF I = {} THEN <<>> ELSE SubSeq(s, MinOf(I), MaxOf(I))

\* Spaces only (what the YAML scanner skips around a scalar).
stripSP(s) ==
    LET I == {i \in 1..Len(s) : s[i] # SP}
    IN IF I = {} THEN <<>> ELSE SubSeq(s, MinOf(I), MaxOf(I))

\* s.split(sep) for a one-token separator: the pieces between the separators.
SplitOn(s, sep) ==
    LET cuts == {i \in 1..Len(s) : s[i] = sep}
        n    == Cardinality(cuts)
        \* the k-th cut position, with 0 before the first and Len+1 after the last
        cut[k \in 0..(n + 1)] ==
            IF k = 0 THEN 0
            ELSE IF k = n + 1 THEN Len(s) + 1
            ELSE CHOOSE i \in cuts : Cardinality({j \in cuts : j < i}) = k - 1
    IN [k \in 1..(n + 1) |-> SubSeq(s, cut[k - 1] + 1, cut[k] - 1)]

RECURSIVE Concat(_)
Concat(ss) == IF ss = <<>> THEN <<>> ELSE Head(ss) \o Concat(Tail(ss))

\* ------------------------------------------------------- reading a file
\* Path.read_text(encoding='utf-8', errors='ignore'): invalid bytes are dropped,
\* then text mode translates "\r\n" and a lone "\r" to "\n".
RECURSIVE Newlines(_)
Newlines(s) ==
    IF s = <<>> THEN <<>>
    ELSE IF s[1] = CR
         THEN IF Len(s) >= 2 /\ s[2] = LF
              THEN <<LF>> \o Newlines(SubSeq(s, 3, Len(s)))
              ELSE <<LF>> \o Newlines(Tail(s))
         ELSE <<s[1]>> \o Newlines(Tail(s))

read_text(bytes) == Newlines(SelectSeq(bytes, LAMBDA b : b # BAD))

\* Path.write_text(text, encoding="utf-8") on a POSIX system: "\n" stays "\n".
write_text(text) == text


\* ------------------------------------------------------------ YAML values
\* A tag-list entry or a scalar: its type and, for a scalar, its text.  A nested
\* list or mapping keeps the tokens it was written with.
Entry(t, s) == [t |-> t, s |-> s]
ErrEntry == Entry("err", <<>>)

\* One key of the front matter, in document order.  t is "str", "int", "null" or
\* "seq"; a "seq" holds its entries in items.
Pair(k, t, s, items) == [k |-> k, t |-> t, s |-> s, items |-> items]

Digits == {"1", "2"}
\* Characters that cannot stand inside an unquoted scalar of the documents modelled.
PlainBreak == {TAB, DQ, SQ, "[", "]", "{", "}", ",", ":", LF, CR}

\* The escapes of a double-quoted scalar.
Unescape(s) ==
    [i \in 1..Len(s) |->
        IF s[i] = ESC_T THEN TAB
        ELSE IF s[i] = ESC_N THEN LF
        ELSE IF s[i] = ESC_D THEN D
        ELSE s[i]]

Quoted(toks, q) ==
    /\ Len(toks) >= 2
    /\ toks[1] = q
    /\ Last(toks) = q
    /\ \A i \in 2..(Len(toks) - 1) : toks[i] # q

\* The YAML scanner and resolver on one scalar.
ParseScalar(toks) ==
    IF toks = <<>> THEN ErrEntry
    ELSE IF toks[1] = DQ
         THEN IF Quoted(toks, DQ)
              THEN Entry("str", Unescape(SubSeq(toks, 2, Len(toks) - 1)))
              ELSE ErrEntry
    ELSE IF toks[1] = SQ
         THEN IF Quoted(toks, SQ)
              THEN Entry("str", SubSeq(toks, 2, Len(toks) - 1))
              ELSE ErrEntry
    ELSE IF \E i \in 1..Len(toks) : toks[i] \in PlainBreak THEN ErrEntry
    ELSE IF Len(toks) = 1 /\ toks[1] \in Digits THEN Entry("int", toks)
    ELSE IF toks = <<"null">> THEN Entry("null", <<>>)
    ELSE Entry("str", toks)

\* One entry of a sequence: a scalar, or a nested flow list or flow mapping
\* (nested collections of one element, so that no comma occurs inside them).
ParseStripped(it) ==
    IF it = <<>> THEN ErrEntry
    ELSE IF it[1] = "["
         THEN IF Len(it) >= 2 /\ Last(it) = "]" THEN Entry("list", it) ELSE ErrEntry
    ELSE IF it[1] = "{"
         THEN IF Len(it) >= 2 /\ Last(it) = "}" THEN Entry("map", it) ELSE ErrEntry
    ELSE ParseScalar(it)

ParseItem(item) == ParseStripped(stripSP(item))

\* A flow sequence "[a, b]": ok is FALSE when the parser raises.
FlowResult(ok, items) == [ok |-> ok, items |-> items]

FlowItems(items) ==
    IF \E k \in 1..Len(items) : items[k].t = "err"
    THEN FlowResult(FALSE, <<>>)
    ELSE FlowResult(TRUE, items)

FlowPieces(pieces) == FlowItems([k \in 1..Len(pieces) |-> ParseItem(pieces[k])])

ParseFlowSeq(toks) ==
    IF ~(Len(toks) >= 2 /\ toks[1] = "[" /\ Last(toks) = "]") THEN FlowResult(FALSE, <<>>)
    ELSE IF \A k \in 2..(Len(toks) - 1) : toks[k] = SP THEN FlowResult(TRUE, <<>>)
    ELSE FlowPieces(SplitOn(SubSeq(toks, 2, Len(toks) - 1), ","))

\* The loader's state after some lines: kind is "empty", "map", "list", "scalar"
\* or "err" (an exception); open says that the last key still takes "- item" lines.
LoadState(kind, pairs, open) == [kind |-> kind, pairs |-> pairs, open |-> open]
LoadErr == LoadState("err", <<>>, FALSE)

IsKeyToken(tok) == tok \notin (PlainBreak \cup {D, SP})

\* A "- item" line.
AddItem(acc, e) ==
    IF e.t = "err" THEN LoadErr
    ELSE IF acc.kind = "map" /\ acc.open
         THEN LoadState("map",
                        [acc.pairs EXCEPT ![Len(acc.pairs)] =
                            Pair(@.k, "seq", <<>>, Append(@.items, e))],
                        TRUE)
    ELSE IF acc.kind \in {"empty", "list"} THEN LoadState("list", <<>>, FALSE)
    ELSE LoadErr

AddFlow(acc, key, f) ==
    IF f.ok THEN LoadState("map", Append(acc.pairs, Pair(key, "seq", <<>>, f.items)), FALSE)
    ELSE LoadErr

AddScalar(acc, key, e) ==
    IF e.t = "err" THEN LoadErr
    ELSE LoadState("map", Append(acc.pairs, Pair(key, e.t, e.s, <<>>)), FALSE)

\* A "key: value" line at the top level, v the value without surrounding spaces.
AddKey(acc, key, v) ==
    IF acc.kind \notin {"empty", "map"} THEN LoadErr
    ELSE IF v = <<>>
         THEN LoadState("map", Append(acc.pairs, Pair(key, "null", <<>>, <<>>)), TRUE)
    ELSE IF v[1] = "[" THEN AddFlow(acc, key, ParseFlowSeq(v))
    ELSE AddScalar(acc, key, ParseScalar(v))

\* A line that is neither: a bare scalar is a document of its own.
AddBare(acc, e) ==
    IF acc.kind = "empty" /\ e.t # "err" THEN LoadState("scalar", <<>>, FALSE) ELSE LoadErr

\* One line, it the line without surrounding spaces.
LoadStripped(acc, line, it) ==
    IF acc.kind = "err" \/ it = <<>> THEN acc
    ELSE IF Len(it) >= 3 /\ it[1] = D /\ it[2] = SP
         THEN AddItem(acc, ParseItem(SubSeq(it, 3, Len(it))))
    ELSE IF Len(line) >= 2 /\ IsKeyToken(line[1]) /\ line[2] = ":"
            /\ (Len(line) = 2 \/ line[3] = SP)
         THEN AddKey(acc, line[1], stripSP(SubSeq(line, 3, Len(line))))
    ELSE AddBare(acc, ParseScalar(it))

LoadLine(acc, line) == LoadStripped(acc, line, stripSP(line))

RECURSIVE LoadLines(_, _, _)
LoadLines(lines, i, acc) ==
    IF i > Len(lines) THEN acc ELSE LoadLines(lines, i + 1, LoadLine(acc, lines[i]))

\* yaml.safe_load on the text between the markers.
safe_load(yaml_text) ==
    LoadLines(SplitOn(yaml_text, LF), 1, LoadState("empty", <<>>, FALSE))

\* ------------------------------------------------------ load_front_matter
MARKER == <<D, D, D>>

\* text.split("---", 2), i1 and i2 the first two places of the marker (0: none).
SplitAt(text, i1, i2) ==
    IF i1 = 0 THEN <<text>>
    ELSE IF i2 = 0 THEN <<SubSeq(text, 1, i1 - 1), SubSeq(text, i1 + 3, Len(text))>>
    ELSE <<SubSeq(text, 1, i1 - 1), SubSeq(text, i1 + 3, i2 - 1),
           SubSeq(text, i2 + 3, Len(text))>>

SplitFrom(text, i1) ==
    SplitAt(text, i1, IF i1 = 0 THEN 0 ELSE FindFrom(text, MARKER, i1 + 3))

split2(text) == SplitFrom(text, FindFrom(text, MARKER, 1))

\* The (None, text) result.
NoFront(text) == [ok |-> FALSE, front |-> <<>>, body |-> text]

\* Lines 41-49: the decoded metadata, loaded the result of yaml.safe_load.
FromLoaded(text, body, loaded) ==
    IF loaded.kind = "err" THEN NoFront(text)
    ELSE IF loaded.kind # "map" THEN NoFront(text)
    ELSE [ok |-> TRUE, front |-> loaded.pairs, body |-> body]

\* Lines 35-39.
FromParts(text, parts) ==
    IF Len(parts) < 3 THEN NoFront(text)
    ELSE FromLoaded(text, parts[3], safe_load(parts[2]))

\* The parser without the test of line 31.
load_front_matter_AnyStart(text) == FromParts(text, split2(text))

load_front_matter(text) ==
    IF ~StartsWith(text, MARKER) THEN NoFront(text) ELSE FromParts(text, split2(text))

\* --------------------------------------------------------- normalize_tags
CANONICAL == <<"online", D, "privacy">>

\* str.lower() on a run of letters (re.IGNORECASE compares case-insensitively).
Lower(tok) ==
    IF tok \in {"Online", "ONLINE"} THEN "online"
    ELSE IF tok \in {"Privacy", "PRIVACY"} THEN "privacy"
    ELSE tok

\* The character class [\s\-_].
RE_SEP == WS \cup {D, "_"}

\* online[\s\-_]?privacy, matching the whole of s.
VariantBody(s) ==
    \/ Len(s) = 2 /\ Lower(s[1]) = "online" /\ Lower(s[2]) = "privacy"
    \/ Len(s) = 3 /\ Lower(s[1]) = "online" /\ s[2] \in RE_SEP /\ Lower(s[3]) = "privacy"

\* VARIANT_RE.match(s): "$" matches at the end and before a final newline.
VARIANT_RE_match(s) ==
    \/ VariantBody(s)
    \/ s # <<>> /\ Last(s) = LF /\ VariantBody(Front(s))

\* The test of line 56 on the entry as it is, not stripped.
IsVariantEntry_NoStrip(e) == e.t = "str" /\ VARIANT_RE_match(e.s)

\* isinstance(t, str) and VARIANT_RE.match(t.strip())
IsVariantEntry(e) == e.t = "str" /\ VARIANT_RE_match(strip(e.s))

\* The loop of normalize_tags: the list before duplicates are removed.
MapTags(tags_list) ==
    [k \in 1..Len(tags_list) |->
        IF IsVariantEntry(tags_list[k]) THEN Entry("str", CANONICAL) ELSE tags_list[k]]

\* list(dict.fromkeys(final)): the first occurrence of each value, in order.
KeepFirst(final, keep) ==
    [k \in 1..Cardinality(keep) |->
        final[CHOOSE n \in keep : Cardinality({m \in keep : m < n}) = k - 1]]

Dedup(final) ==
    KeepFirst(final, {n \in 1..Len(final) : \A m \in 1..(n - 1) : final[m] # final[n]})

\* changed, were it set whenever the returned list differs from the given one.
AnyVariant_OrDuplicates(tags_list) == Dedup(MapTags(tags_list)) # tags_list

\* changed, as the loop leaves it.
AnyVariant(tags_list) == \E k \in 1..Len(tags_list) : IsVariantEntry(tags_list[k])

\* dict.fromkeys raises TypeError on a list or a dict: they are not hashable.
Unhashable(e) == e.t \in {"list", "map"}

\* Line 63 on the list the loop built: raised stands for the TypeError leaving
\* the function, in which case nothing is returned.
Normalized(mapped, changed) ==
    [raised |-> \E k \in 1..Len(mapped) : Unhashable(mapped[k]),
     mapped |-> mapped,
     final |-> IF \E k \in 1..Len(mapped) : Unhashable(mapped[k]) THEN <<>> ELSE Dedup(mapped),
     changed |-> changed]

normalize_tags(tags_list) == Normalized(MapTags(tags_list), AnyVariant(tags_list))

\* -------------------------------------------------------------- safe_dump
Escape(s) ==
    [k \in 1..Len(s) |-> IF s[k] = TAB THEN ESC_T ELSE IF s[k] = LF THEN ESC_N ELSE s[k]]

\* The emitter's choice of style for one scalar: plain when the text reads back
\* as the same string, double-quoted for a control character, else single-quoted.
\* (A string with a line break, which the emitter folds over several lines, is
\* written escaped; none of the documents modelled has one written.)
DumpScalar(e) ==
    IF e.t = "int" THEN e.s
    ELSE IF e.t = "null" THEN <<"null">>
    ELSE IF e.t # "str" THEN e.s
    ELSE IF \E k \in 1..Len(e.s) : e.s[k] \in {TAB, LF} THEN <<DQ>> \o Escape(e.s) \o <<DQ>>
    ELSE IF \/ e.s = <<>>
            \/ e.s[1] = SP
            \/ Last(e.s) = SP
            \/ \E k \in 1..Len(e.s) : e.s[k] \in PlainBreak
            \/ e.s = <<"null">>
            \/ (Len(e.s) = 1 /\ e.s[1] \in Digits)
            \/ e.s = <<D>>
            \/ StartsWith(e.s, <<D, SP>>)
            \/ StartsWith(e.s, MARKER)
         THEN <<SQ>> \o e.s \o <<SQ>>
    ELSE e.s

DumpPair(p) ==
    IF p.t = "seq"
    THEN IF p.items = <<>> THEN <<p.k, ":", SP, "[", "]", LF>>
         ELSE <<p.k, ":", LF>>
              \o Concat([k \in 1..Len(p.items) |-> <<D, SP>> \o DumpScalar(p.items[k]) \o <<LF>>])
    ELSE <<p.k, ":", SP>> \o DumpScalar(Entry(p.t, p.s)) \o <<LF>>

\* yaml.safe_dump(front, sort_keys=False): the keys in the order of the mapping.
safe_dump(front) == Concat([k \in 1..Len(front) |-> DumpPair(front[k])])

\* ------------------------------------------------------------ process_file
\* front.get("tags"): the index of the key, 0 when absent.
TagsIndex(front) ==
    IF \E k \in 1..Len(front) : front[k].k = "tags"
    THEN MinOf({k \in 1..Len(front) : front[k].k = "tags"})
    ELSE 0

\* "not tags or not isinstance(tags, list)" is false: a non-empty list.
IsTagList(front) ==
    /\ TagsIndex(front) # 0
    /\ front[TagsIndex(front)].t = "seq"
    /\ front[TagsIndex(front)].items # <<>>

\* What process_file did: kind is "none" (it returned None), "change" (it
\* returned (new, old)) or "raise" (the TypeError of normalize_tags left it);
\* call records the call of normalize_tags it made, if any.
NormCall(called, input, res) == [called |-> called, input |-> input, res |-> res]
NoCall == NormCall(FALSE, <<>>, Normalized(<<>>, FALSE))
Result(kind, new, old, call) == [kind |-> kind, new |-> new, old |-> old, call |-> call]
NoResult == Result("none", <<>>, <<>>, NoCall)

\* Lines 84-85.
Rebuild(front, body) ==
    MARKER \o <<LF>> \o strip(safe_dump(front)) \o <<LF>> \o MARKER \o <<LF>> \o lstrip(body)

\* Lines 78-87, r what normalize_tags returned for the tag list at index ti.
FromNormalized(text, fm, ti, r) ==
    IF r.raised THEN Result("raise", <<>>, <<>>, NormCall(TRUE, fm.front[ti].items, r))
    ELSE IF ~r.changed THEN Result("none", <<>>, <<>>, NormCall(TRUE, fm.front[ti].items, r))
    ELSE Result("change",
                Rebuild([fm.front EXCEPT ![ti].items = r.final], fm.body),
                text,
                NormCall(TRUE, fm.front[ti].items, r))

\* Line 77.
FromTags(text, fm, ti) == FromNormalized(text, fm, ti, normalize_tags(fm.front[ti].items))

\* Lines 70-75.
FromFront(text, fm) ==
    IF ~fm.ok \/ fm.front = <<>> THEN NoResult
    ELSE IF ~IsTagList(fm.front) THEN NoResult
    ELSE FromTags(text, fm, TagsIndex(fm.front))

\* process_file on the text that read_text returned.
process_file(text) == FromFront(text, load_front_matter(text))

\* ---------------------------------------------------- documents on disk
\* A document: the marker line, the lines of the metadata block, the marker
\* line, the body.  eol is the line ending of the file: <<LF>> or <<CR, LF>>.
RECURSIVE JoinLines(_, _)
JoinLines(lines, eol) ==
    IF lines = <<>> THEN <<>> ELSE Head(lines) \o eol \o JoinLines(Tail(lines), eol)

Doc(lines, eol, body) == MARKER \o eol \o JoinLines(lines, eol) \o MARKER \o eol \o body

TitleLine == <<"title", ":", SP, "Hello">>
Body == <<LF, SP, "intro", LF, D, D, D, LF, "more", LF>>

\* The tag lists of the documents, as written in the files.
TagsVariant  == <<"tags", ":", SP, "[", "Online", SP, "Privacy", ",", SP, "security", "]">>
TagsCollapse == <<"tags", ":", SP, "[", "online", "_", "privacy", ",", SP,
                  "online", D, "privacy", "]">>
TagsPlain    == <<"tags", ":", SP, "[", "privacy", ",", SP, "security", "]">>
TagsUnclosed == <<"tags", ":", SP, "[", "online", SP, "privacy">>
TagsCanon    == <<"tags", ":", SP, "[", "online", D, "privacy", "]">>
TagsNestedV  == <<"tags", ":", SP, "[", "online", SP, "privacy", ",", SP, "[", "a", "]", "]">>
TagsNestedP  == <<"tags", ":", SP, "[", "security", ",", SP, "{", "a", ":", SP, "b", "}", "]">>
TagsDups     == <<"tags", ":", SP, "[", "security", ",", SP, "1", ",", SP, "security",
                  ",", SP, "1", "]">>
TagsTab      == <<"tags", ":", SP, "[", DQ, "online", ESC_T, "privacy", DQ, ",", SP,
                  "online", D, D, "privacy", ",", SP, "online", ".", "privacy", ",", SP,
                  DQ, "online", ESC_N, "privacy", DQ, "]">>
TagsStrip    == <<"tags", ":", SP, "[", DQ, SP, "ONLINE", "_", "PRIVACY", SP, DQ, ",", SP,
                  "1", ",", SP, "security", ",", SP, "1", ",", SP, "online", "privacy", "]">>
TagsScalar   == <<"tags", ":", SP, "online", SP, "privacy">>
TagsOne      == <<"tags", ":", SP, "[", "online", SP, "privacy", "]">>

DocVariant   == Doc(<<TitleLine, TagsVariant>>, <<LF>>, Body)
DocCollapse  == Doc(<<TagsCollapse, TitleLine>>, <<LF>>, <<"text">>)
DocPlain     == Doc(<<TitleLine, TagsPlain>>, <<LF>>, Body)
DocMalformed == Doc(<<TitleLine, TagsUnclosed>>, <<LF>>, Body)
DocCanon     == Doc(<<TagsCanon>>, <<LF>>, <<"text">>)
DocNoMarker  == <<"intro", LF>> \o Doc(<<TagsOne>>, <<LF>>, <<"text">>)
DocOneMarker == MARKER \o <<LF>> \o TagsOne \o <<LF, "text">>
DocScalar    == Doc(<<<<"online", SP, "privacy">>>>, <<LF>>, <<"text">>)
DocTopList   == Doc(<<<<D, SP, "online", SP, "privacy">>>>, <<LF>>, <<"text">>)
DocNestedV   == Doc(<<TitleLine, TagsNestedV>>, <<LF>>, <<"text">>)
DocNestedP   == Doc(<<TagsNestedP>>, <<LF>>, <<"text">>)
DocDups      == Doc(<<TagsDups, TitleLine>>, <<LF>>, <<"text">>)
DocTab       == Doc(<<TagsTab>>, <<LF>>, <<"text">>)
DocStrip     == Doc(<<TitleLine, TagsStrip>>, <<LF>>, <<"text">>)
DocCrLf      == Doc(<<TitleLine, TagsOne>>, <<CR, LF>>, <<"text", CR, LF>>)
DocBadByte   == Doc(<<TagsOne>>, <<LF>>, <<"text", BAD, LF>>)
DocEscape    == Doc(<<<<"title", ":", SP, DQ, "a", ESC_D, D, D, "b", DQ>>, TagsOne>>,
                    <<LF>>, <<"text">>)
DocDashTitle == Doc(<<TagsOne, <<"title", ":", SP, "a", D, D, D, "b">>,
                      <<"category", ":", SP, "c">>>>, <<LF>>, <<"text">>)
DocNoTags    == Doc(<<TitleLine>>, <<LF>>, Body)
DocTagsStr   == Doc(<<TagsScalar>>, <<LF>>, <<"text">>)
DocTagsNull  == Doc(<<<<"tags", ":">>, TitleLine>>, <<LF>>, <<"text">>)
DocBlock     == Doc(<<<<"tags", ":">>, <<SP, SP, D, SP, "online", SP, "privacy">>,
                      <<SP, SP, D, SP, "security">>, <<"weight", ":", SP, "2">>>>,
                    <<LF>>, Body)

Docs ==
    {DocVariant, DocCollapse, DocPlain, DocMalformed, DocCanon, DocNoMarker,
     DocOneMarker, DocScalar, DocTopList, DocNestedV, DocNestedP, DocDups, DocTab,
     DocStrip, DocCrLf, DocBadByte, DocEscape, DocDashTitle, DocNoTags, DocTagsStr,
     DocTagsNull, DocBlock}

\* ------------------------------------------------------------------ paths
\* A path: its directories and the file name split before each dot, so that
\* "_posts/a.md" is dirs <<"_posts">> and name <<"a", ".md">>.  The names
\* modelled all carry a suffix.
PathOf(dirs, name) == [dirs |-> dirs, name |-> name]

\* Path.suffix and Path.with_suffix, the new suffix given in its dot-separated parts.
suffix(p) == IF Len(p.name) >= 2 THEN <<Last(p.name)>> ELSE <<>>
with_suffix(p, sfx) ==
    PathOf(p.dirs, (IF Len(p.name) >= 2 THEN Front(p.name) ELSE p.name) \o sfx)

\* bak = p.with_suffix(p.suffix + ".bak")
BakPath(p) == with_suffix(p, suffix(p) \o <<".bak">>)

PostPath == PathOf(<<"_posts">>, <<"a", ".md">>)
RootPath == PathOf(<<>>, <<"b", ".markdown">>)
SitePath == PathOf(<<"_site">>, <<"c", ".md">>)
DirPath  == PathOf(<<"docs">>, <<"notes", ".md">>)        \* a directory named notes.md
TextPath == PathOf(<<>>, <<"readme", ".txt">>)

\* The directory listing, in the order the file system yields it.
Listing == <<PostPath, RootPath, SitePath, DirPath, TextPath>>
Entries == {Listing[i] : i \in 1..Len(Listing)}
AllPaths == Entries \cup {BakPath(p) : p \in Entries}

File(bytes) == [kind |-> "file", bytes |-> bytes]
Directory == [kind |-> "dir", bytes |-> <<>>]
Absent == [kind |-> "none", bytes |-> <<>>]

\* GLOBS: each pattern is "<root>/**/*<ext>".
Pattern(root, ext) == [root |-> root, ext |-> ext]
GLOBS == <<Pattern(<<"_posts">>, ".md"), Pattern(<<"_posts">>, ".markdown"),
           Pattern(<<>>, ".md"), Pattern(<<>>, ".markdown")>>

EXCLUDE_DIRS == {".git", "_site", ".jekyll-cache", "node_modules"}

\* should_skip: some part of the path is an excluded name.
should_skip(p) == \E i \in 1..Len(p.dirs) : p.dirs[i] \in EXCLUDE_DIRS

\* Path(".").glob(g): the entries that exist under the root and end with the extension.
GlobMatches(g, p, fs) ==
    /\ fs[p].kind # "none"
    /\ StartsWith(p.dirs, g.root)
    /\ Len(p.name) >= 2
    /\ Last(p.name) = g.ext

glob(g, fs) == SelectSeq(Listing, LAMBDA p : GlobMatches(g, p, fs))

\* Lines 98-100: the matches of every pattern, one pattern after the other.
Discover(fs) == Concat([k \in 1..Len(GLOBS) |-> glob(GLOBS[k], fs)])

\* The flag as given, the default of lines 95-96 left out.
EffectiveDryRun_AsGiven(apply, dry_run) == dry_run

\* Lines 95-96: without --apply the run is a dry run.
EffectiveDryRun(apply, dry_run) == IF ~apply THEN TRUE ELSE dry_run

\* ------------------------------------------------------------------ state
MaxRuns == 2

VARIABLES
    disk,       \* the file system: path -> file, directory or nothing
    pc,         \* where main() is: "idle", "scan", "apply", "done", "aborted"
    args,       \* the parsed arguments, after line 96
    all_files,  \* the list built by lines 98-100
    i,          \* the position of the loop of line 104 in all_files
    changes,    \* the list of (p, new, old)
    j,          \* the position of the loop of line 123 in changes
    step,       \* inside that loop: "bak" before line 125, "write" before line 126
    out,        \* what the run has printed
    run,        \* the number of the run
    cmdline,    \* history: the flags as given on the command line
    start,      \* history: the file system when the run started
    wlog,       \* history: the writes of this run, in order
    rewritten,  \* history: the documents overwritten by an earlier run
    norm        \* history: the last call of normalize_tags

vars == <<disk, pc, args, all_files, i, changes, j, step, out, run, cmdline, start,
          wlog, rewritten, norm>>

NoPath == PathOf(<<>>, <<>>)
Line(msg, p) == [msg |-> msg, p |-> p]
Change(p, new, old) == [p |-> p, new |-> new, old |-> old]

Init ==
    /\ \E d1 \in Docs, d2 \in Docs :
          disk = [p \in AllPaths |->
                    IF p = PostPath THEN File(d1)
                    ELSE IF p = RootPath THEN File(d2)
                    ELSE IF p = SitePath THEN File(DocVariant)
                    ELSE IF p = TextPath THEN File(DocVariant)
                    ELSE IF p = DirPath THEN Directory
                    ELSE Absent]
    /\ pc = "idle"
    /\ args = [apply |-> FALSE, dry_run |-> FALSE]
    /\ cmdline = [apply |-> FALSE, dry_run |-> FALSE]
    /\ all_files = <<>>
    /\ i = 1
    /\ changes = <<>>
    /\ j = 1
    /\ step = "bak"
    /\ out = <<>>
    /\ run = 1
    /\ start = disk
    /\ wlog = <<>>
    /\ rewritten = {}
    /\ norm = NoCall

\* ---------------------------------------------------------------- actions
\* Lines 89-102: the arguments are parsed and the files are listed.
Start ==
    /\ pc = "idle"
    /\ \E a \in BOOLEAN, d \in BOOLEAN :
          /\ cmdline' = [apply |-> a, dry_run |-> d]
          /\ args' = [apply |-> a, dry_run |-> EffectiveDryRun(a, d)]
    /\ all_files' = Discover(disk)
    /\ i' = 1
    /\ changes' = <<>>
    /\ j' = 1
    /\ step' = "bak"
    /\ out' = <<>>
    /\ start' = disk
    /\ wlog' = <<>>
    /\ pc' = "scan"
    /\ UNCHANGED <<disk, run, rewritten, norm>>

is_file(p) == disk[p].kind = "file"

\* Lines 105-106: an entry that is no file, or lies in an excluded directory.
SkipEntry ==
    /\ pc = "scan"
    /\ i <= Len(all_files)
    /\ ~is_file(all_files[i]) \/ should_skip(all_files[i])
    /\ i' = i + 1
    /\ UNCHANGED <<disk, pc, args, all_files, changes, j, step, out, run, cmdline,
                   start, wlog, rewritten, norm>>

Processable ==
    /\ pc = "scan"
    /\ i <= Len(all_files)
    /\ is_file(all_files[i])
    /\ ~should_skip(all_files[i])

\* p.read_text(encoding='utf-8', errors='ignore')
Text(p) == read_text(disk[p].bytes)

Record(old, call) == IF call.called THEN call ELSE old

\* Lines 107-108: process_file returns None.
TakeNone(r) ==
    /\ r.kind = "none"
    /\ norm' = Record(norm, r.call)
    /\ i' = i + 1
    /\ UNCHANGED <<disk, pc, args, all_files, changes, j, step, out, run, cmdline,
                   start, wlog, rewritten>>

ProcessNone == Processable /\ TakeNone(process_file(Text(all_files[i])))

\* Lines 107-109: process_file returns (new_text, text).
TakeChange(r) ==
    /\ r.kind = "change"
    /\ changes' = Append(changes, Change(all_files[i], r.new, r.old))
    /\ norm' = Record(norm, r.call)
    /\ i' = i + 1
    /\ UNCHANGED <<disk, pc, args, all_files, j, step, out, run, cmdline, start,
                   wlog, rewritten>>

ProcessChange == Processable /\ TakeChange(process_file(Text(all_files[i])))

\* Line 107: the TypeError of normalize_tags is caught nowhere and ends the run.
TakeRaise(r) ==
    /\ r.kind = "raise"
    /\ norm' = Record(norm, r.call)
    /\ pc' = "aborted"
    /\ UNCHANGED <<disk, args, all_files, i, changes, j, step, out, run, cmdline,
                   start, wlog, rewritten>>

ProcessRaise == Processable /\ TakeRaise(process_file(Text(all_files[i])))

WillUpdate == [k \in 1..Len(changes) |-> Line("Will update", changes[k].p)]

\* Lines 111-113.
ReportNone ==
    /\ pc = "scan"
    /\ i > Len(all_files)
    /\ changes = <<>>
    /\ out' = Append(out, Line("No files with tag variants found.", NoPath))
    /\ pc' = "done"
    /\ UNCHANGED <<disk, args, all_files, i, changes, j, step, run, cmdline, start,
                   wlog, rewritten, norm>>

\* Lines 115-120.
ReportDryRun ==
    /\ pc = "scan"
    /\ i > Len(all_files)
    /\ changes # <<>>
    /\ args.dry_run
    /\ out' = out \o WillUpdate \o <<Line("Dry-run only.", NoPath)>>
    /\ pc' = "done"
    /\ UNCHANGED <<disk, args, all_files, i, changes, j, step, run, cmdline, start,
                   wlog, rewritten, norm>>

\* Lines 115-118, the run going on to apply.
ReportApply ==
    /\ pc = "scan"
    /\ i > Len(all_files)
    /\ changes # <<>>
    /\ ~args.dry_run
    /\ out' = out \o WillUpdate
    /\ pc' = "apply"
    /\ j' = 1
    /\ step' = "bak"
    /\ UNCHANGED <<disk, args, all_files, i, changes, run, cmdline, start, wlog,
                   rewritten, norm>>

Write(op, p) == [op |-> op, p |-> p]

\* Lines 124-125: the backup is written.
Backup ==
    /\ pc = "apply"
    /\ j <= Len(changes)
    /\ step = "bak"
    /\ disk' = [disk EXCEPT ![BakPath(changes[j].p)] = File(write_text(changes[j].old))]
    /\ wlog' = Append(wlog, Write("bak", changes[j].p))
    /\ step' = "write"
    /\ UNCHANGED <<pc, args, all_files, i, changes, j, out, run, cmdline, start,
                   rewritten, norm>>

\* Lines 126-127: the document is overwritten.
Overwrite ==
    /\ pc = "apply"
    /\ j <= Len(changes)
    /\ step = "write"
    /\ disk' = [disk EXCEPT ![changes[j].p] = File(write_text(changes[j].new))]
    /\ wlog' = Append(wlog, Write("write", changes[j].p))
    /\ out' = Append(out, Line("Updated", changes[j].p))
    /\ j' = j + 1
    /\ step' = "bak"
    /\ UNCHANGED <<pc, args, all_files, i, changes, run, cmdline, start, rewritten, norm>>

\* Lines 129-130.
Finish ==
    /\ pc = "apply"
    /\ j > Len(changes)
    /\ out' = Append(out, Line("Done.", NoPath))
    /\ pc' = "done"
    /\ UNCHANGED <<disk, args, all_files, i, changes, j, step, run, cmdline, start,
                   wlog, rewritten, norm>>

\* The process has ended; the tool is started again on the files it left.
NextRun ==
    /\ pc \in {"done", "aborted"}
    /\ run < MaxRuns
    /\ run' = run + 1
    /\ rewritten' = rewritten \cup {wlog[k].p : k \in {n \in 1..Len(wlog) : wlog[n].op = "write"}}
    /\ pc' = "idle"
    /\ all_files' = <<>>
    /\ i' = 1
    /\ changes' = <<>>
    /\ j' = 1
    /\ step' = "bak"
    /\ start' = disk
    /\ wlog' = <<>>
    /\ out' = <<>>
    /\ UNCHANGED <<disk, args, cmdline, norm>>

Next ==
    \/ Start
    \/ SkipEntry
    \/ ProcessNone
    \/ ProcessChange
    \/ ProcessRaise
    \/ ReportNone
    \/ ReportDryRun
    \/ ReportApply
    \/ Backup
    \/ Overwrite
    \/ Finish
    \/ NextRun

Spec == Init /\ [][Next]_vars

\* ----------------------------------------------------------------- claims
\* The documents whose content varies, and what a run did to them.
Documents == {PostPath, RootPath}
ChangedPaths == {changes[k].p : k \in 1..Len(changes)}
ReportedPaths == {out[k].p : k \in 1..Len(out)}
Untouched(p) ==
    /\ p \notin ChangedPaths
    /\ p \notin ReportedPaths
    /\ disk[p] = start[p]
    /\ disk[BakPath(p)] = start[BakPath(p)]

\* C1: a document that an earlier run has normalized and rewritten yields no
\* change record in a later run: it is not reported, backed up or rewritten again.
C1_SecondRunNoChange == \A k \in 1..Len(changes) : changes[k].p \notin rewritten

\* C2: whenever a run has overwritten a document, the file at <path>.bak was
\* written before in that run and holds exactly the bytes the document had on
\* disk when the run started.
C2_BackupHoldsOriginal ==
    \A k \in 1..Len(wlog) :
        wlog[k].op = "write" =>
            /\ \E m \in 1..(k - 1) : wlog[m] = Write("bak", wlog[k].p)
            /\ disk[BakPath(wlog[k].p)] = start[wlog[k].p]

\* C3: a run started without --apply, or with --dry-run, creates and modifies
\* no file, whatever its change records are.
C3_DryRunWritesNothing ==
    (~cmdline.apply \/ cmdline.dry_run) => (disk = start /\ wlog = <<>>)

C3_Witness ==
    /\ pc = "done"
    /\ ~cmdline.apply
    /\ ~cmdline.dry_run
    /\ Len(changes) >= 2
    /\ Line("Will update", RootPath) \in {out[k] : k \in 1..Len(out)}

\* The text has no metadata block: it does not start with the marker, or holds
\* no second marker, or what lies between the two does not decode to a mapping.
NoMetadata(text) ==
    \/ ~StartsWith(text, MARKER)
    \/ FindFrom(text, MARKER, 4) = 0
    \/ safe_load(SubSeq(text, 4, FindFrom(text, MARKER, 4) - 1)).kind # "map"

IsNoFront(text, fm) == ~fm.ok /\ fm.body = text

\* C4: a document without a metadata block gets the no-metadata result of
\* load_front_matter (None and the text itself), never enters the change set and
\* is left as it was on disk, without a backup file, in a dry run and in an
\* apply run.
C4_NoMetadataSafety ==
    \A p \in Documents :
        NoMetadata(read_text(start[p].bytes)) =>
            /\ IsNoFront(read_text(start[p].bytes), load_front_matter(read_text(start[p].bytes)))
            /\ Untouched(p)

C4_Witness ==
    /\ pc = "done"
    /\ cmdline.apply
    /\ ~cmdline.dry_run
    /\ start[PostPath] = File(DocNoMarker)
    /\ start[RootPath] = File(DocVariant)
    /\ disk[RootPath] # start[RootPath]

\* The reference result: every variant-matching string replaced by the canonical
\* tag, then the first occurrence of each value kept, in order.
RECURSIVE FirstOccurrences(_, _)
FirstOccurrences(rest, seen) ==
    IF rest = <<>> THEN <<>>
    ELSE IF Head(rest) \in seen THEN FirstOccurrences(Tail(rest), seen)
    ELSE <<Head(rest)>> \o FirstOccurrences(Tail(rest), seen \cup {Head(rest)})

Reference(tags_list) ==
    FirstOccurrences([k \in 1..Len(tags_list) |->
                         IF tags_list[k].t = "str" /\ VARIANT_RE_match(strip(tags_list[k].s))
                         THEN Entry("str", CANONICAL)
                         ELSE tags_list[k]],
                     {})

\* C5: for every tag list, of strings and of other entries, normalize_tags
\* returns the reference result.
C5_NormalizerMatchesReference ==
    norm.called => (~norm.res.raised /\ norm.res.final = Reference(norm.input))

LowerAll(s) == [k \in 1..Len(s) |-> Lower(s[k])]

\* The four spellings of the claim.
FourSpellings ==
    {<<"online", SP, "privacy">>, <<"online", D, "privacy">>,
     <<"online", "_", "privacy">>, <<"online", "privacy">>}

\* The spellings the pattern accepts: the two words joined by nothing, or by one
\* hyphen, underscore or whitespace character.
AcceptedSpellings ==
    {<<"online", "privacy">>} \cup {<<"online", c, "privacy">> : c \in {SP, TAB, LF, CR, D, "_"}}

\* In the last call of normalize_tags, the string entries of the given spellings
\* were replaced by the canonical tag and every other string entry was kept.
ReplacesExactly(spellings) ==
    norm.called =>
        \A k \in 1..Len(norm.input) :
            norm.input[k].t = "str" =>
                IF LowerAll(strip(norm.input[k].s)) \in spellings
                THEN norm.res.mapped[k] = Entry("str", CANONICAL) /\ norm.res.changed
                ELSE norm.res.mapped[k] = norm.input[k]

\* C6, as claimed: a string entry is replaced if and only if, trimmed and
\* compared case-insensitively, it is one of the four spellings.
C6_FourSpellingsOnly == ReplacesExactly(FourSpellings)

\* C6, amended: a string entry is replaced if and only if, trimmed and compared
\* case-insensitively, it is "online" and "privacy" joined by nothing or by one
\* hyphen, underscore or whitespace character (a space, a tab, a newline); any
\* other separator, or more than one, leaves the entry unchanged.
C6_WhitespaceSeparator == ReplacesExactly(AcceptedSpellings)

C6_Witness ==
    /\ norm.called
    /\ Len(norm.input) = 4
    /\ norm.input[1].s = <<"online", TAB, "privacy">>
    /\ norm.input[4].s = <<"online", LF, "privacy">>
    /\ norm.res.mapped[1].s = CANONICAL
    /\ norm.res.mapped[2].s = <<"online", D, D, "privacy">>
    /\ norm.res.mapped[3].s = <<"online", ".", "privacy">>
    /\ norm.res.mapped[4].s = CANONICAL
    /\ Len(norm.res.final) = 3

\* C7: no error leaves the run, whatever the documents hold.
C7_NoErrorLeavesRun == pc # "aborted"

Keys(front) == [k \in 1..Len(front) |-> front[k].k]
OtherKeys(front) == SelectSeq(front, LAMBDA q : q.k # "tags")

\* The new content decodes to the keys of the old one, in their order, with the
\* values of the old one but for "tags", and its body, after the line of the
\* closing marker, is the old body without its leading whitespace.
SameButTags(o, n) ==
    /\ n.ok
    /\ Keys(n.front) = Keys(o.front)
    /\ OtherKeys(n.front) = OtherKeys(o.front)
    /\ n.body = <<LF>> \o lstrip(o.body)

\* C8: for every change record, the rewrite touches the tag list only.
C8_RewriteTouchesOnlyTags ==
    \A k \in 1..Len(changes) :
        SameButTags(load_front_matter(changes[k].old), load_front_matter(changes[k].new))

\* The metadata has no "tags" key, or a "tags" value that is no list, or a tag
\* list without a variant-matching string.
NothingToNormalize(fm) ==
    /\ fm.ok
    /\ \/ \A k \in 1..Len(fm.front) : fm.front[k].k # "tags"
       \/ \E k \in 1..Len(fm.front) :
             /\ fm.front[k].k = "tags"
             /\ \/ fm.front[k].t # "seq"
                \/ \A n \in 1..Len(fm.front[k].items) :
                      ~(fm.front[k].items[n].t = "str"
                        /\ VARIANT_RE_match(strip(fm.front[k].items[n].s)))

\* C9: a document with nothing to normalize, duplicates or not, yields no change
\* record and is not reported, not backed up and not written in any run.
C9_UnchangedExcluded ==
    \A p \in Documents :
        NothingToNormalize(load_front_matter(read_text(start[p].bytes))) => Untouched(p)

C9_Witness ==
    /\ pc = "done"
    /\ cmdline.apply
    /\ ~cmdline.dry_run
    /\ start[PostPath] = File(DocDups)
    /\ start[RootPath] = File(DocCollapse)
    /\ disk[RootPath] # start[RootPath]

\* C10: a run holds one change record for a document at most, so that it writes
\* the backup of a document once and the document once.
C10_OneRecordPerDocument ==
    /\ \A k \in 1..Len(changes), m \in 1..Len(changes) : changes[k].p = changes[m].p => k = m
    /\ \A k \in 1..Len(wlog), m \in 1..Len(wlog) : wlog[k] = wlog[m] => k = m

=============================================================================
